---------------------------- MODULE Spec2Model ----------------------------
(***************************************************************************)
(* Model of the Matrio Control driver (ha-matriocontrol):                  *)
(*   - MatrioController (matrio_controller.py): the socket, the command    *)
(*     encoders, the ALLNAMES parser;                                      *)
(*   - UniversalHNGSyncDecoder (matrio_controller.py): the sync decoder;   *)
(*   - BroadcastDecoder (analysis/broadcast_decoder.py): the change        *)
(*     decoder.                                                            *)
(* Bytes are integers 0..255, a bytes object is a sequence of bytes, a hex *)
(* string is a sequence of hex digits 0..15.                               *)
(***************************************************************************)
EXTENDS Integers, Sequences, FiniteSets, TLC

VARIABLES
    socket,        \* MatrioController.socket: "None", "unconnected", "open"
    pc,            \* "idle": no call running; "returned": a call has returned
    call,          \* the controller method last called, with its arguments
    result,        \* what that call returned
    sent,          \* the frames that call wrote to the control socket, in order
    steps,         \* the handshake steps connect() went through
    section,       \* sync decoder input: a sync section
    envelope,      \* sync decoder input: the header in front of the section
    hng_plain,     \* decode_hng_sync_packet of the section alone
    hng_enveloped, \* decode_hng_sync_packet of envelope + section
    input_mappings,\* input id -> display name, as given to the decoders
    bcast_hex,     \* the hex string given to BroadcastDecoder.decode_packet
    broadcast_info,\* what decode_packet returned for them
    allnames_response, \* the device's ALLNAMES reply
    names_result,  \* what query_all_names returned
    self_input_mappings, \* MatrioController.input_mappings, set by get_zone_states
    received,      \* what the device did on the last get_zone_states
    hng_result,    \* what trigger_hng_sync returned to it
    zone_states,   \* what get_zone_states returned
    jobs,          \* the executor jobs: where each is in its controller method
    wire,          \* the frames written to the socket and not yet answered
    inbox          \* the replies that arrived and no recv has taken yet

vars == <<socket, pc, call, result, sent, steps, section, envelope, hng_plain,
          hng_enveloped, input_mappings, bcast_hex, broadcast_info, allnames_response,
          names_result, self_input_mappings, received, hng_result, zone_states,
          jobs, wire, inbox>>

ctlVars    == <<socket, pc, call, result, sent, steps>>
syncVars   == <<section, envelope, hng_plain, hng_enveloped>>
changeVars == <<input_mappings, bcast_hex, broadcast_info>>
namesVars  == <<allnames_response, names_result>>
pollVars   == <<self_input_mappings, received, hng_result, zone_states>>
execVars   == <<jobs, wire, inbox>>

(***************************************************************************)
(* Bounds of the model.                                                    *)
(***************************************************************************)
\* zone ids tried: 1 - ZoneSlack .. 8 + ZoneSlack
ZoneSlack == 1
\* values tried beyond each end of a control's range
ValueSlack == 1
\* longest name tried in a rename
MaxNameChars == 2
\* longest of the short buffers given to the change decoder
MaxShort == 4
\* longest zone or input name in the ALLNAMES replies tried
MaxNameLen == 2
\* executor threads that run controller methods at the same time
NumThreads == 2
\* frames and replies the socket holds at most
MaxPending == 2

(***************************************************************************)
(* Python helpers.                                                         *)
(***************************************************************************)
Max(a, b) == IF a >= b THEN a ELSE b
Min(a, b) == IF a <= b THEN a ELSE b

\* [x] * n
Repeat(x, n) == [i \in 1..n |-> x]

\* seq[lo:hi] of Python (0-based, hi exclusive, clipped to the length)
Slice(seq, lo, hi) ==
    LET h == Min(hi, Len(seq))
    IN  IF lo >= h THEN <<>> ELSE [i \in 1..(h - lo) |-> seq[lo + i]]

\* seq[lo:]
SliceFrom(seq, lo) == Slice(seq, lo, Len(seq))

\* f"{b:02x}": at least two hex digits
fmt02x(b) ==
    IF b < 256 THEN <<b \div 16, b % 16>>
    ELSE <<b \div 256, (b \div 16) % 16, b % 16>>

\* ''.join(f'{b:02x}' for b in seq), and bytes.hex()
RECURSIVE hex(_)
hex(seq) == IF seq = <<>> THEN <<>> ELSE fmt02x(Head(seq)) \o hex(Tail(seq))

\* bytes.fromhex raises ValueError on an odd number of digits
fromhex_ok(h) == Len(h) % 2 = 0
fromhex(h) == [i \in 1..(Len(h) \div 2) |-> 16 * h[2 * i - 1] + h[2 * i]]

\* int.to_bytes(4, 'little')
to_bytes4_little(n) ==
    <<n % 256, (n \div 256) % 256, (n \div 65536) % 256, (n \div 16777216) % 256>>

(***************************************************************************)
(* The state after construction, part by part.                             *)
(***************************************************************************)
\* MatrioController.inputs, the default input mapping
inputs ==
    (1 :> "TV") @@ (2 :> "Google Music") @@ (3 :> "Input3") @@ (4 :> "Input4")
    @@ (5 :> "Input5") @@ (6 :> "Input6") @@ (7 :> "Input7") @@ (8 :> "Wi-Fi")

\* the mappings tried: none, a partial one, the default
Mappings == {<<>>, (1 :> "TV") @@ (2 :> "Google Music"), inputs}

NoCall == [op |-> "none", zone_id |-> 0, value |-> 0]
Unset == [status |-> "unset"]

\* MatrioController.__init__: self.socket = None
IdleController ==
    /\ socket = "None"
    /\ pc = "idle"
    /\ call = NoCall
    /\ result = FALSE
    /\ sent = <<>>
    /\ steps = <<>>

\* no sync packet decoded yet
IdleSync ==
    /\ section = <<>>
    /\ envelope = <<>>
    /\ hng_plain = Unset
    /\ hng_enveloped = Unset

\* no change packet decoded yet
IdleChange ==
    /\ input_mappings = inputs
    /\ bcast_hex = <<>>
    /\ broadcast_info = [type |-> "unset"]

\* no ALLNAMES reply parsed yet
IdleNames ==
    /\ allnames_response = <<>>
    /\ names_result = Unset

\* MatrioController.__init__ sets no input_mappings attribute
Absent == [present |-> FALSE]
Stored(m) == [present |-> TRUE, mappings |-> m]

\* no get_zone_states call made yet
IdlePoll ==
    /\ self_input_mappings = Absent
    /\ received = Unset
    /\ hng_result = Unset
    /\ zone_states = Unset

\* the executor threads that run controller methods
Threads == 1..NumThreads
IdleJob == [at |-> "idle", op |-> "none", zone_id |-> 0]

\* no executor job running, nothing on the wire
IdleExec ==
    /\ jobs = [t \in Threads |-> IdleJob]
    /\ wire = <<>>
    /\ inbox = <<>>

(***************************************************************************)
(* Fixed parts of the frames, as the hex strings of the source.            *)
(***************************************************************************)
\* "18961820"
hex_18961820 == <<1,8,9,6,1,8,2,0>>
\* "1896182016000000"
hex_1896182016000000 == <<1,8,9,6,1,8,2,0,1,6,0,0,0,0,0,0>>
\* "000000"
hex_000000 == <<0,0,0,0,0,0>>
\* "00000000000000000000"
hex_zeros20 == <<0,0,0,0,0,0,0,0,0,0,0,0,0,0,0,0,0,0,0,0>>
\* "4d43552b5041532b", ASCII MCU+PAS+
hex_MCU_PAS == <<4,13,4,3,5,5,2,11,5,0,4,1,5,3,2,11>>
\* "ffcc26"
hex_ffcc26 == <<15,15,12,12,2,6>>
\* b'MCU+PAS+'
MCU_PAS == <<77,67,85,43,80,65,83,43>>
\* b'\x18\x96\x18\x20'
header == <<24,150,24,32>>
\* "189618200f0000005706000000000000000000004d43552b5041532b820affffff8926"
init_packet_hex ==
    <<1,8,9,6,1,8,2,0,0,15,0,0,0,0,0,0,5,7,0,6,0,0,0,0,0,0,0,0,0,0,0,0,0,0,0,0,
      0,0,0,0,4,13,4,3,5,5,2,11,5,0,4,1,5,3,2,11,8,2,0,10,15,15,15,15,15,15,8,9,2,6>>
init_packet == fromhex(init_packet_hex)

(***************************************************************************)
(* Value codecs.                                                           *)
(***************************************************************************)
\* a decoded label: a fixed string, or UNKNOWN(0x..) carrying the byte, or
\* the str() of a number
Label(s) == [label |-> s, arg |-> 0]
UNKNOWN(b) == [label |-> "UNKNOWN", arg |-> b]
str(n) == [label |-> "str", arg |-> n]

\* mutant: the +1 offset of the wire volume is forgotten
adjusted_volume_NoOffset(volume) == Max(1, volume)
\* _send_volume_command: adjusted_volume = max(1, volume + 1)
adjusted_volume(volume) == Max(1, volume + 1)

\* decode_volume_level
decode_volume_level(volume) == Max(0, volume - 1)

\* mutant: the centre of the bass/treble range is taken as 12
ui_value_to_hex_limited_Centre12(ui_value) ==
    Max(1, Min(25, Max(-12, Min(12, ui_value)) + 12))
\* _ui_value_to_hex_limited
_ui_value_to_hex_limited(ui_value) ==
    LET clamped == Max(-12, Min(12, ui_value))
        hex_value == clamped + 13
    IN  Max(1, Min(25, hex_value))

\* decode_bass_treble: bass_val - 0x0d if 0x01 <= bass_val <= 0x19 else 0
bass_treble_value(val) == IF 1 <= val /\ val <= 25 THEN val - 13 ELSE 0

\* mutant: the centre anchor is written 0x20 instead of 0x1f
balance_hex_value_Centre20(value) ==
    LET hex_value ==
          IF value = -100 THEN 1
          ELSE IF value = 0 THEN 32
          ELSE IF value = 100 THEN 61
          ELSE IF value < 0 THEN 1 + ((value + 100) * (31 - 1)) \div 100
          ELSE 31 + (value * (61 - 31)) \div 100
    IN  Max(1, Min(61, hex_value))
\* _send_audio_control_command, balance branch.  int(x / 100.0 * 30) of a
\* non-negative x is (x * 30) \div 100 for every x in 0..200.
balance_hex_value(value) ==
    LET hex_value ==
          IF value = -100 THEN 1
          ELSE IF value = 0 THEN 31
          ELSE IF value = 100 THEN 61
          ELSE IF value < 0 THEN 1 + ((value + 100) * (31 - 1)) \div 100
          ELSE 31 + (value * (61 - 31)) \div 100
    IN  Max(1, Min(61, hex_value))

\* decode_balance_state (sync decoder); packet_size is not used by the code
decode_balance_state(balance, packet_size) ==
    IF balance = 61 THEN Label("MAX Right")
    ELSE IF balance = 31 THEN Label("Default")
    ELSE IF balance = 1 THEN Label("MAX Left")
    ELSE IF 1 <= balance /\ balance <= 61
         THEN str(((balance - 1) * 200) \div (61 - 1) - 100)
         ELSE UNKNOWN(balance)

\* BroadcastDecoder._decode_balance_value
_decode_balance_value(value) ==
    IF value = 61 THEN 100
    ELSE IF value = 31 THEN 0
    ELSE IF value = 1 THEN -100
    ELSE IF 1 <= value /\ value <= 61
         THEN ((value - 1) * 200) \div (61 - 1) - 100
         ELSE 0

(***************************************************************************)
(* Command encoder: the frames MatrioController builds.                    *)
(***************************************************************************)
\* zone_pattern = [0x02] * n; zone_pattern[index] = 0x01   (index is 0-based,
\* and a negative index counts from the end, as in Python)
ZonePattern(n, index) ==
    [Repeat(2, n) EXCEPT ![(IF index < 0 THEN n + index ELSE index) + 1] = 1]

\* mutant: the power patterns are indexed like those of the other commands
power_packet_ZoneMinusOne(zone_id, power_on) ==
    LET command_code == IF power_on THEN <<10,11,0,4>> ELSE <<10,10,0,4>>
        zone_pattern ==
          IF power_on THEN ZonePattern(11, zone_id - 1)
          ELSE [ZonePattern(9, 0) EXCEPT ![zone_id] = 1]
        length == IF power_on THEN 24 ELSE 22
        packet_hex == hex_18961820 \o fmt02x(length) \o hex_000000
                      \o command_code \o hex_zeros20 \o hex_MCU_PAS
                      \o <<8,2,0,8>> \o hex(zone_pattern) \o hex_ffcc26
    IN  fromhex(packet_hex)
\* _send_power_command, lines 579-599
power_packet(zone_id, power_on) ==
    LET command_code == IF power_on THEN <<10,11,0,4>> ELSE <<10,10,0,4>>
        zone_pattern ==
          IF power_on THEN ZonePattern(11, zone_id)
          ELSE [ZonePattern(9, 0) EXCEPT ![zone_id + 1] = 1]
        length == IF power_on THEN 24 ELSE 22
        packet_hex == hex_18961820 \o fmt02x(length) \o hex_000000
                      \o command_code \o hex_zeros20 \o hex_MCU_PAS
                      \o <<8,2,0,8>> \o hex(zone_pattern) \o hex_ffcc26
    IN  fromhex(packet_hex)

\* _send_volume_command, lines 637-656
volume_packet(zone_id, volume) ==
    LET zone_pattern == ZonePattern(8, zone_id - 1)
        pattern == fmt02x(adjusted_volume(volume)) \o hex(zone_pattern)
        packet_hex == hex_1896182016000000 \o <<11,6,0,4>> \o hex_zeros20
                      \o hex_MCU_PAS \o <<8,2,0,1>> \o pattern \o hex_ffcc26
    IN  fromhex(packet_hex)

\* _send_mute_command, lines 690-709
mute_packet(zone_id, mute) ==
    LET zone_pattern == ZonePattern(8, zone_id - 1)
        command_code == IF mute THEN <<11,1,0,4>> ELSE <<11,0,0,4>>
        pattern == (IF mute THEN <<0,2>> ELSE <<0,1>>) \o hex(zone_pattern)
        packet_hex == hex_1896182016000000 \o command_code \o hex_zeros20
                      \o hex_MCU_PAS \o <<8,2,0,14>> \o pattern \o hex_ffcc26
    IN  fromhex(packet_hex)

\* mutant: the input frame declares the length of the power-on frame
input_packet_Length24(zone_id, input_id) ==
    LET zone_pattern == ZonePattern(8, zone_id - 1)
        length == 24
        fixed == <<182,4,0,0,0,0,0,0,0,0,0,0>>
        payload == MCU_PAS \o <<130, 13, input_id>> \o zone_pattern
                   \o fromhex(hex_ffcc26)
    IN  fromhex(hex_18961820) \o to_bytes4_little(length) \o fixed \o payload
\* _send_input_command, lines 526-540
input_packet(zone_id, input_id) ==
    LET zone_pattern == ZonePattern(8, zone_id - 1)
        length == 22
        fixed == <<182,4,0,0,0,0,0,0,0,0,0,0>>
        payload == MCU_PAS \o <<130, 13, input_id>> \o zone_pattern
                   \o fromhex(hex_ffcc26)
    IN  fromhex(hex_18961820) \o to_bytes4_little(length) \o fixed \o payload

\* mutant: bass and treble carry each other's command byte
command_codes_BassTwo(control_type) ==
    IF control_type = "balance" THEN 5
    ELSE IF control_type = "bass" THEN 2
    ELSE 3
\* _send_audio_control_command, lines 1148-1202
command_codes(control_type) ==
    IF control_type = "balance" THEN 5
    ELSE IF control_type = "bass" THEN 3
    ELSE 2
audio_hex_value(control_type, value) ==
    IF control_type = "balance" THEN balance_hex_value(value)
    ELSE _ui_value_to_hex_limited(value)
audio_packet(zone_id, control_type, value) ==
    LET zone_pattern == ZonePattern(8, zone_id - 1)
        packet_hex == hex_1896182016000000 \o <<14,3,0,4>> \o hex_zeros20
                      \o hex_MCU_PAS \o <<8,2>>
                      \o fmt02x(command_codes(control_type))
                      \o fmt02x(audio_hex_value(control_type, value))
                      \o hex(zone_pattern) \o hex_ffcc26
    IN  fromhex(packet_hex)

\* str.encode('utf-8') of a string given by its code points (below 0x800)
RECURSIVE encode_utf8(_)
encode_utf8(name) ==
    IF name = <<>> THEN <<>>
    ELSE (IF Head(name) < 128 THEN <<Head(name)>>
          ELSE <<192 + (Head(name) \div 64), 128 + (Head(name) % 64)>>)
         \o encode_utf8(Tail(name))

\* _send_name_command, lines 740-745
name_packet(command_type, item_id, name) ==
    LET name_bytes == encode_utf8(name)
        name_length == Len(name_bytes)
    IN  <<130, 19, command_type, item_id, name_length>> \o name_bytes \o <<204>>

(***************************************************************************)
(* The control socket.                                                     *)
(***************************************************************************)
\* what the device and the network do with one request:
\*   "data"    the frame is written and a non-empty reply is read
\*   "empty"   the frame is written and recv returns b''
\*   "timeout" the frame is written and recv raises socket.timeout
\*   "senderr" send raises, nothing is written
DeviceOutcomes == {"data", "empty", "timeout", "senderr"}

\* the common tail of the _send_* methods: send, recv, len(response) > 0,
\* any exception caught and turned into False.  A socket whose TCP connect
\* failed is still a socket object: send on it raises.
Transmit(packet, dev) ==
    IF socket = "unconnected" \/ dev = "senderr"
    THEN [ok |-> FALSE, sent |-> <<>>]
    ELSE [ok |-> dev = "data", sent |-> <<packet>>]

NotSent == [ok |-> FALSE, sent |-> <<>>]

\* a controller method returns: its outcome is recorded
Returned(op, zone_id, value, out) ==
    /\ pc = "idle"
    /\ pc' = "returned"
    /\ call' = [op |-> op, zone_id |-> zone_id, value |-> value]
    /\ result' = out.ok
    /\ sent' = out.sent
    /\ UNCHANGED <<socket, steps, syncVars, changeVars, namesVars, pollVars, execVars>>

\* mutant: the lower end of the zone check is off by one
ValidZone_FromZero(zone_id) == ~(zone_id < 0 \/ zone_id > 8)
\* if zone_id < 1 or zone_id > 8: return False
ValidZone(zone_id) == ~(zone_id < 1 \/ zone_id > 8)

ZoneArgs == (1 - ZoneSlack)..(8 + ZoneSlack)
VolumeArgs == (0 - ValueSlack)..(38 + ValueSlack)
BalanceArgs == (-100 - ValueSlack)..(100 + ValueSlack)
ToneArgs == (-12 - ValueSlack)..(12 + ValueSlack)
InputArgs == (1 - ValueSlack)..(8 + ValueSlack)
\* names as code points: ASCII letters and one two-byte character
NameChars == {90, 233}
NameArgs == UNION {[1..n -> NameChars] : n \in 0..MaxNameChars}

\* _send_power_command (set_zone_power only forwards to it)
_send_power_command(zone_id, power_on, dev) ==
    IF socket = "None" THEN NotSent
    ELSE IF ~ValidZone(zone_id) THEN NotSent
    ELSE Transmit(power_packet(zone_id, power_on), dev)

set_zone_power ==
    \E zone_id \in ZoneArgs, power \in BOOLEAN, dev \in DeviceOutcomes :
        Returned("set_zone_power", zone_id, power,
                 _send_power_command(zone_id, power, dev))

\* _send_volume_command
_send_volume_command(zone_id, volume, dev) ==
    IF socket = "None" THEN NotSent
    ELSE IF ~ValidZone(zone_id) THEN NotSent
    ELSE IF volume < 0 \/ volume > 38 THEN NotSent
    ELSE Transmit(volume_packet(zone_id, volume), dev)

set_volume ==
    \E zone_id \in ZoneArgs, volume \in VolumeArgs, dev \in DeviceOutcomes :
        Returned("set_volume", zone_id, volume,
                 IF ~ValidZone(zone_id) THEN NotSent
                 ELSE IF volume < 0 \/ volume > 38 THEN NotSent
                 ELSE _send_volume_command(zone_id, volume, dev))

\* _send_mute_command
_send_mute_command(zone_id, mute, dev) ==
    IF socket = "None" THEN NotSent
    ELSE IF ~ValidZone(zone_id) THEN NotSent
    ELSE Transmit(mute_packet(zone_id, mute), dev)

set_mute ==
    \E zone_id \in ZoneArgs, mute \in BOOLEAN, dev \in DeviceOutcomes :
        Returned("set_mute", zone_id, mute,
                 IF ~ValidZone(zone_id) THEN NotSent
                 ELSE _send_mute_command(zone_id, mute, dev))

\* _send_input_command
_send_input_command(zone_id, input_id, dev) ==
    IF socket = "None" THEN NotSent
    ELSE IF ~ValidZone(zone_id) THEN NotSent
    ELSE IF input_id < 1 \/ input_id > 8 THEN NotSent
    ELSE Transmit(input_packet(zone_id, input_id), dev)

set_input ==
    \E zone_id \in ZoneArgs, input_id \in InputArgs, dev \in DeviceOutcomes :
        Returned("set_input", zone_id, input_id,
                 IF input_id < 1 \/ input_id > 8 THEN NotSent
                 ELSE _send_input_command(zone_id, input_id, dev))

\* mutant: no range check, the value is clamped into range by the conversion
send_audio_control_command_Clamping(zone_id, control_type, value, dev) ==
    IF socket = "None" THEN NotSent
    ELSE IF ~ValidZone(zone_id) THEN NotSent
    ELSE Transmit(audio_packet(zone_id, control_type, value), dev)
\* _send_audio_control_command
_send_audio_control_command(zone_id, control_type, value, dev) ==
    IF socket = "None" THEN NotSent
    ELSE IF ~ValidZone(zone_id) THEN NotSent
    ELSE IF control_type = "balance" /\ (value < -100 \/ value > 100) THEN NotSent
    ELSE IF control_type # "balance" /\ (value < -12 \/ value > 12) THEN NotSent
    ELSE Transmit(audio_packet(zone_id, control_type, value), dev)

\* set_balance, set_bass, set_treble: the definitions at lines 1245-1282,
\* which replace the earlier ones of lines 804-832
set_balance ==
    \E zone_id \in ZoneArgs, balance \in BalanceArgs, dev \in DeviceOutcomes :
        Returned("set_balance", zone_id, balance,
                 _send_audio_control_command(zone_id, "balance", balance, dev))

set_bass ==
    \E zone_id \in ZoneArgs, bass \in ToneArgs, dev \in DeviceOutcomes :
        Returned("set_bass", zone_id, bass,
                 _send_audio_control_command(zone_id, "bass", bass, dev))

set_treble ==
    \E zone_id \in ZoneArgs, treble \in ToneArgs, dev \in DeviceOutcomes :
        Returned("set_treble", zone_id, treble,
                 _send_audio_control_command(zone_id, "treble", treble, dev))

\* _send_name_command: no zone check of its own
_send_name_command(command_type, item_id, name, dev) ==
    IF socket = "None" THEN NotSent
    ELSE Transmit(name_packet(command_type, item_id, name), dev)

set_zone_name ==
    \E zone_id \in ZoneArgs, name \in NameArgs, dev \in DeviceOutcomes :
        Returned("set_zone_name", zone_id, name,
                 IF ~ValidZone(zone_id) THEN NotSent
                 ELSE _send_name_command(1, zone_id, name, dev))

set_input_name ==
    \E input_id \in InputArgs, name \in NameArgs, dev \in DeviceOutcomes :
        Returned("set_input_name", input_id, name,
                 IF input_id < 1 \/ input_id > 8 THEN NotSent
                 ELSE _send_name_command(2, input_id, name, dev))

(***************************************************************************)
(* connect and disconnect.                                                 *)
(***************************************************************************)
\* the steps of connect(), in the order of the code
ConnectSteps ==
    <<"tcp_connect",
      "subscribe_rendertransport1", "subscribe_rendercontrol1", "subscribe_PlayQueue1",
      "soap_GetControlDeviceInfo", "soap_GetInfoEx", "soap_GetChannel",
      "send_init", "recv_sync", "recv_allnames">>

\* where the handshake fails: step 0 is no failure; a step raises ("exc"),
\* and the two recv of the binary initialization may also return b''
NoFail == [step |-> 0, how |-> "none"]
FailPoints ==
    {NoFail} \cup {[step |-> i, how |-> "exc"] : i \in 1..Len(ConnectSteps)}
             \cup {[step |-> i, how |-> "empty"] : i \in {9, 10}}

\* mutant: the result of _send_soap_commands is not tested, so after a
\* failed SOAP command the binary initialization still runs
initialize_device_SoapUnchecked(fail) ==
    IF fail.step \in 5..7
    THEN [steps |-> SubSeq(ConnectSteps, 2, fail.step) \o SubSeq(ConnectSteps, 8, 10),
          ok |-> TRUE]
    ELSE [steps |-> SubSeq(ConnectSteps, 2,
                           IF fail.step = 0 THEN Len(ConnectSteps) ELSE fail.step),
          ok |-> fail.step = 0]
\* _initialize_device, _setup_upnp_subscriptions, _send_soap_commands,
\* _send_binary_initialization: each part returns False at its first step
\* that raises (or, for the two recv, returns b''), and _initialize_device
\* returns False at the first part that does
_initialize_device(fail) ==
    [steps |-> SubSeq(ConnectSteps, 2,
                      IF fail.step = 0 THEN Len(ConnectSteps) ELSE fail.step),
     ok |-> fail.step = 0]

\* connect; call.value records the step the device or the network made fail
connect ==
    \E fail \in FailPoints :
        LET init == IF fail.step = 1 THEN [steps |-> <<>>, ok |-> FALSE]
                    ELSE _initialize_device(fail)
        IN  /\ pc = "idle"
            /\ pc' = "returned"
            /\ call' = [op |-> "connect", zone_id |-> 0, value |-> fail.step]
            /\ steps' = <<ConnectSteps[1]>> \o init.steps
            /\ result' = init.ok
            \* the init frame is on the wire once send returned, that is
            \* when the first recv is reached
            /\ sent' = IF \E i \in 1..Len(init.steps) : init.steps[i] = "recv_sync"
                       THEN <<init_packet>> ELSE <<>>
            \* a failed TCP connect leaves the socket object in self.socket;
            \* a failed initialization ends in disconnect()
            /\ socket' = IF init.ok THEN "open"
                         ELSE IF fail.step = 1 THEN "unconnected"
                         ELSE "None"
            /\ UNCHANGED <<syncVars, changeVars, namesVars, pollVars, execVars>>

\* disconnect: if self.socket: close, self.socket = None
disconnect ==
    /\ pc = "idle"
    /\ pc' = "returned"
    /\ call' = [op |-> "disconnect", zone_id |-> 0, value |-> 0]
    /\ result' = FALSE
    /\ sent' = <<>>
    /\ socket' = "None"
    /\ UNCHANGED <<steps, syncVars, changeVars, namesVars, pollVars, execVars>>

\* the caller takes the return value; the next call may start
Return ==
    /\ pc = "returned"
    /\ pc' = "idle"
    /\ call' = NoCall
    /\ result' = FALSE
    /\ sent' = <<>>
    /\ steps' = <<>>
    /\ UNCHANGED <<socket, syncVars, changeVars, namesVars, pollVars, execVars>>

(***************************************************************************)
(* UniversalHNGSyncDecoder (matrio_controller.py).                         *)
(***************************************************************************)
\* mutant: one power table for both layouts
decode_power_state_Unified(power, packet_size) ==
    IF power = 1 THEN Label("ON")
    ELSE IF power = 2 THEN Label("OFF")
    ELSE UNKNOWN(power)
\* decode_power_state
decode_power_state(power, packet_size) ==
    IF packet_size = 96
    THEN IF power = 2 THEN Label("ON")
         ELSE IF power = 1 THEN Label("OFF")
         ELSE UNKNOWN(power)
    ELSE IF power = 1 THEN Label("ON")
         ELSE IF power = 2 THEN Label("OFF")
         ELSE UNKNOWN(power)

\* decode_mute_state
decode_mute_state(mute, packet_size) ==
    IF packet_size = 96
    THEN IF mute = 1 THEN Label("DEFAULT")
         ELSE IF mute = 2 THEN Label("MUTED")
         ELSE UNKNOWN(mute)
    ELSE IF mute = 13 THEN Label("DEFAULT")
         ELSE IF mute = 2 THEN Label("MUTED")
         ELSE UNKNOWN(mute)

\* decode_input_selection: input_mappings.get(input_val, f"UNKNOWN(0x..)")
decode_input_selection(input_val, mappings) ==
    IF input_val \in DOMAIN mappings THEN Label(mappings[input_val])
    ELSE UNKNOWN(input_val)

\* decode_zone: where each field's 8-byte run starts
input_start(hng_start, packet_size) ==
    IF packet_size = 96 THEN hng_start + 2 ELSE hng_start + 2
volume_start(hng_start, packet_size) ==
    IF packet_size = 96 THEN hng_start + 10 ELSE hng_start + 10
\* mutant: the 68-byte layout reads power where the 96-byte layout has it
power_start_Always44(hng_start, packet_size) == hng_start + 44
power_start(hng_start, packet_size) ==
    IF packet_size = 96 THEN hng_start + 44 ELSE hng_start + 50
balance_start(hng_start, packet_size) == hng_start + 34
mute_start(hng_start, packet_size) ==
    IF packet_size = 96 THEN hng_start + 52 ELSE hng_start + 28
\* mutant: bass is read where treble is
get_bass_start_AtTreble(hng_start, packet_size) == hng_start + 18
get_bass_start(hng_start, packet_size) == hng_start + 26
get_treble_start(hng_start, packet_size) == hng_start + 18

\* the indices decode_zone reads for a zone (0-based)
ZoneIndices(zone, hng_start, packet_size) ==
    {input_start(hng_start, packet_size) + zone,
     volume_start(hng_start, packet_size) + zone,
     power_start(hng_start, packet_size) + zone,
     balance_start(hng_start, packet_size) + zone,
     mute_start(hng_start, packet_size) + zone,
     get_bass_start(hng_start, packet_size) + zone,
     get_treble_start(hng_start, packet_size) + zone}

\* decode_zone, when every index is inside the packet
decode_zone(zone, packet, hng_start, packet_size, mappings) ==
    LET input_val == packet[input_start(hng_start, packet_size) + zone + 1]
        volume_val == packet[volume_start(hng_start, packet_size) + zone + 1]
        power_val == packet[power_start(hng_start, packet_size) + zone + 1]
        balance_val == packet[balance_start(hng_start, packet_size) + zone + 1]
        mute_val == packet[mute_start(hng_start, packet_size) + zone + 1]
        bass_val == packet[get_bass_start(hng_start, packet_size) + zone + 1]
        treble_val == packet[get_treble_start(hng_start, packet_size) + zone + 1]
    IN  [zone_id |-> zone + 1,
         power |-> decode_power_state(power_val, packet_size),
         input |-> decode_input_selection(input_val, mappings),
         volume |-> decode_volume_level(volume_val),
         balance |-> decode_balance_state(balance_val, packet_size),
         mute |-> decode_mute_state(mute_val, packet_size),
         bass |-> bass_treble_value(bass_val),
         treble |-> bass_treble_value(treble_val),
         raw_data |-> [power |-> fmt02x(power_val),
                       input |-> fmt02x(input_val),
                       volume |-> fmt02x(volume_val),
                       balance |-> fmt02x(balance_val),
                       mute |-> fmt02x(mute_val)]]

\* mutant: the envelope is taken to be the 20-byte header without the tag
hng_start_of_Header20(packet) ==
    IF Len(packet) >= 2 /\ Slice(packet, 0, 2) = <<130, 12>> THEN 0
    ELSE IF Len(packet) = 96 THEN 20
    ELSE 0
\* mutant: the length is looked at before the signature
hng_start_of_LengthFirst(packet) ==
    IF Len(packet) = 96 THEN 28 ELSE 0
\* decode_hng_sync_packet, lines 44-54: where the sync section starts
hng_start_of(packet) ==
    IF Len(packet) >= 2 /\ Slice(packet, 0, 2) = <<130, 12>> THEN 0
    ELSE IF Len(packet) = 96 THEN 28
    ELSE IF Len(packet) = 68 THEN 0
    ELSE 0

Raised == [status |-> "raised"]

\* mutant: a zone whose bytes are missing is skipped, the others returned
decode_hng_sync_packet_Partial(packet_hex, mappings) ==
    IF ~fromhex_ok(packet_hex) THEN Raised
    ELSE
      LET packet == fromhex(packet_hex)
          hng_start == hng_start_of(packet)
          size == Len(packet)
          whole == {zone \in 0..7 :
                      \A i \in ZoneIndices(zone, hng_start, size) : i < size}
      IN  [status |-> "ok",
           packet_length |-> size,
           packet_type |-> size,
           zones |-> [zone_num \in {zone + 1 : zone \in whole} |->
                        decode_zone(zone_num - 1, packet, hng_start, size,
                                    mappings)]]
\* decode_hng_sync_packet: bytes.fromhex and every packet[...] may raise,
\* and then nothing is returned
decode_hng_sync_packet(packet_hex, mappings) ==
    IF ~fromhex_ok(packet_hex) THEN Raised
    ELSE
      LET packet == fromhex(packet_hex)
          hng_start == hng_start_of(packet)
          size == Len(packet)
      IN  IF \E zone \in 0..7 : \E i \in ZoneIndices(zone, hng_start, size) :
                 i >= size
          THEN Raised
          ELSE [status |-> "ok",
                packet_length |-> size,
                packet_type |-> size,
                zones |-> [zone_num \in 1..8 |->
                             decode_zone(zone_num - 1, packet, hng_start, size,
                                         mappings)]]

\* the 68-byte sync section of test_68byte_packet
Literal68 ==
    <<130,12,1,4,3,2,8,8,8,4,5,10,1,39,29,8,5,5,13,13,13,13,13,13,13,13,13,13,
      13,13,13,13,13,13,31,61,31,31,31,31,31,31,2,1,2,1,2,1,1,1,1,1,1,1,1,2,1,
      1,1,2,64,24,12,20,255,255,204,38>>
\* the 28 bytes in front of it in test_96byte_packet: magic, length,
\* command block, MCU+PAS+
LiteralEnvelope ==
    <<24,150,24,32,76,0,0,0,158,8,0,0,0,0,0,0,0,0,0,0,77,67,85,43,80,65,83,43>>

\* sync sections tried: the captured one with one byte changed
SyncBytes == {0, 1, 2, 13, 31, 61, 130}
Sections ==
    {[Literal68 EXCEPT ![pos] = b] : pos \in 1..Len(Literal68), b \in SyncBytes}
\* envelopes tried: the captured one, and other lengths and command ids
Envelopes ==
    {[LiteralEnvelope EXCEPT ![5] = len, ![9] = id] :
        len \in {76, 163}, id \in {158, 169}}

\* a buffer whose every byte is its own index, plain and behind the sync
\* signature 82 0c, and the captured section followed by more data
Ramp(n) == [i \in 1..n |-> i - 1]
RampSync(n) == <<130, 12>> \o SliceFrom(Ramp(n), 2)
LiteralPadded == Literal68 \o [i \in 1..29 |-> 100 + i]
\* lengths tried besides 68: around the last byte each layout reads
SyncLengths == {0, 1, 2, 57, 58, 59, 60, 67, 68, 69, 87, 88, 95, 96, 97}
CutSections ==
    UNION {{Ramp(n), RampSync(n), Slice(LiteralPadded, 0, n)} : n \in SyncLengths}

InitSync ==
    /\ IdlePoll
    /\ IdleExec
    /\ IdleController
    /\ IdleNames
    /\ bcast_hex = <<>>
    /\ broadcast_info = [type |-> "unset"]
    /\ section \in Sections \cup CutSections
    /\ envelope \in Envelopes
    /\ input_mappings \in Mappings
    /\ hng_plain = Unset
    /\ hng_enveloped = Unset

\* the section alone is decoded
DecodeSection ==
    /\ hng_plain = Unset
    /\ hng_plain' = decode_hng_sync_packet(hex(section), input_mappings)
    /\ UNCHANGED <<ctlVars, section, envelope, hng_enveloped, changeVars, namesVars, pollVars, execVars>>

\* the section behind its envelope is decoded
DecodeEnveloped ==
    /\ hng_enveloped = Unset
    /\ hng_enveloped' =
           decode_hng_sync_packet(hex(envelope \o section), input_mappings)
    /\ UNCHANGED <<ctlVars, section, envelope, hng_plain, changeVars, namesVars, pollVars, execVars>>

NextSync == DecodeSection \/ DecodeEnveloped

SpecSync == InitSync /\ [][NextSync]_vars

(***************************************************************************)
(* BroadcastDecoder (analysis/broadcast_decoder.py).                       *)
(***************************************************************************)
None == [type |-> "None"]

\* mutant: every byte that is not 0x02 selects its zone
AffectedZones_NotTwo(zone_pattern) ==
    SelectSeq([i \in 1..Len(zone_pattern) |-> i], LAMBDA i : zone_pattern[i] # 2)
\* [i + 1 for i, zone_val in enumerate(zone_pattern) if zone_val == 0x01]
AffectedZones(zone_pattern) ==
    SelectSeq([i \in 1..Len(zone_pattern) |-> i], LAMBDA i : zone_pattern[i] = 1)

\* mutant: the volume event carries the wire byte itself
change_volume_Raw(value) == value
\* _decode_command_data: volume = max(0, value - 1)
change_volume(value) == Max(0, value - 1)

\* mutant: the power value is read the other way round
power_on_of_One(value) == value = 1
\* _decode_command_data: power_on = value == 0x02
power_on_of(value) == value = 2

\* _decode_command_data
_decode_command_data(command, d, mappings) ==
    IF Len(d) < 8 THEN None
    ELSE
      LET value == d[1]
          zone_pattern == Slice(d, 1, 8)
          affected_zones == AffectedZones(zone_pattern)
          raw_command == fmt02x(command)
          raw_data == hex(d)
      IN  IF command = 8 THEN
            [type |-> "power", zones |-> affected_zones,
             power_on |-> power_on_of(value),
             raw_command |-> raw_command, raw_data |-> raw_data]
          ELSE IF command = 1 THEN
            [type |-> "volume", zones |-> affected_zones,
             volume |-> change_volume(value),
             raw_command |-> raw_command, raw_data |-> raw_data]
          ELSE IF command = 14 THEN
            [type |-> "mute", zones |-> affected_zones, muted |-> (value = 2),
             raw_command |-> raw_command, raw_data |-> raw_data]
          ELSE IF command = 13 THEN
            [type |-> "input", zones |-> affected_zones, input_id |-> value,
             input_name |-> IF value \in DOMAIN mappings
                            THEN Label(mappings[value])
                            ELSE [label |-> "Input ", arg |-> value],
             raw_command |-> raw_command, raw_data |-> raw_data]
          ELSE IF command = 5 THEN
            [type |-> "balance", zones |-> affected_zones,
             balance |-> _decode_balance_value(value),
             raw_command |-> raw_command, raw_data |-> raw_data]
          ELSE IF command = 3 THEN
            [type |-> "bass", zones |-> affected_zones,
             bass |-> bass_treble_value(value),
             raw_command |-> raw_command, raw_data |-> raw_data]
          ELSE IF command = 2 THEN
            [type |-> "treble", zones |-> affected_zones,
             treble |-> bass_treble_value(value),
             raw_command |-> raw_command, raw_data |-> raw_data]
          ELSE IF command = 16 THEN
            [type |-> "total_volume", zones |-> affected_zones,
             volume |-> Max(0, value - 1),
             raw_command |-> raw_command, raw_data |-> raw_data]
          ELSE None

\* mutant: the data is taken one byte further on, command_part[3:11]
decode_command_echo_packet_DataAtThree(packet, mappings) ==
    IF Len(packet) < 20 THEN None
    ELSE
      LET payload == SliceFrom(packet, 20)
      IN  IF Len(payload) < 10 \/ Slice(payload, 0, 8) # MCU_PAS THEN None
          ELSE
            LET command_part == SliceFrom(payload, 8)
            IN  IF Len(command_part) < 2 THEN None
                ELSE IF Len(command_part) < 10 THEN None
                ELSE _decode_command_data(command_part[2],
                                          Slice(command_part, 3, 11), mappings)
\* _decode_command_echo_packet
_decode_command_echo_packet(packet, mappings) ==
    IF Len(packet) < 20 THEN None
    ELSE
      LET payload == SliceFrom(packet, 20)
      IN  IF Len(payload) < 10 \/ Slice(payload, 0, 8) # MCU_PAS THEN None
          ELSE
            LET command_part == SliceFrom(payload, 8)
            IN  IF Len(command_part) < 2 THEN None
                ELSE IF Len(command_part) < 10 THEN None
                ELSE _decode_command_data(command_part[2],
                                          Slice(command_part, 2, 10), mappings)

\* mutant: the direct form is accepted from 10 bytes on
TooShortForDirect_Ten(packet) == Len(packet) < 10
\* _decode_direct_broadcast_packet: if len(packet) < 11: return None
TooShortForDirect(packet) == Len(packet) < 11

\* _decode_direct_broadcast_packet
_decode_direct_broadcast_packet(packet, mappings) ==
    IF TooShortForDirect(packet) THEN None
    ELSE _decode_command_data(packet[2], Slice(packet, 2, 10), mappings)

\* mutant: the test of the first byte is dropped
IsDirect_AnyFirstByte(packet) == Len(packet) >= 3
\* decode_packet: len(packet) >= 3 and packet[0] == 0x82
IsDirect(packet) == Len(packet) >= 3 /\ packet[1] = 130

\* decode_packet; every exception (bytes.fromhex on an odd string too) is
\* caught and gives None
decode_packet(packet_hex, mappings) ==
    IF ~fromhex_ok(packet_hex) THEN None
    ELSE
      LET packet == fromhex(packet_hex)
      IN  IF Len(packet) >= 4 /\ Slice(packet, 0, 4) = header
          THEN _decode_command_echo_packet(packet, mappings)
          ELSE IF IsDirect(packet)
          THEN _decode_direct_broadcast_packet(packet, mappings)
          ELSE None

\* buffers given to the change decoder
ShortAlphabet == {24, 150, 32, 130, 0}
ShortBuffers == UNION {[1..n -> ShortAlphabet] : n \in 0..MaxShort}
ChangeCommands == {1, 2, 3, 5, 8, 13, 14, 16, 0, 19}
ChangeValues == {0, 1, 2, 21}
DirectBuffers ==
    {<<130, c, v>> \o p \o t :
        c \in ChangeCommands, v \in ChangeValues,
        p \in [1..7 -> {1, 2}], t \in {<<>>, <<255>>}}
EncodedFrames ==
    {volume_packet(z, v) : z \in 1..8, v \in {0, 20, 38}}
    \cup {power_packet(z, b) : z \in 1..8, b \in BOOLEAN}
    \cup {audio_packet(z, "balance", v) : z \in {1, 8}, v \in {-100, 0, 100}}
\* a frame cut short, a frame with a foreign first byte, a frame body alone
EchoBuffers ==
    EncodedFrames
    \cup {Slice(f, 0, n) : f \in EncodedFrames, n \in {19, 20, 29, 30, 37, 38}}
    \cup {<<25>> \o Tail(f) : f \in EncodedFrames}
    \cup {SliceFrom(f, k) : f \in EncodedFrames, k \in {20, 28}}
\* a direct broadcast with a foreign first byte
ForeignBuffers == {<<0>> \o Tail(b) : b \in DirectBuffers}
\* every command byte, in the direct form and in the echo form
AnyCommandBuffers ==
    UNION {{<<130, c, 2, 1, 2, 2, 2, 2, 2, 2, 255>>,
            header \o <<22,0,0,0,182,4,0,0,0,0,0,0,0,0,0,0>> \o MCU_PAS
                \o <<130, c, 2, 2, 1, 2, 2, 2, 2, 2, 1, 255, 204, 38>>} :
           c \in 0..255}
\* patterns with bytes that are neither 0x01 nor 0x02
OddPatternBuffers ==
    {<<130, 1, 5>> \o q \o <<1, 255, 2, 255>> : q \in [1..4 -> {0, 1, 3}]}
\* a balance change with every value byte
BalanceBuffers == {<<130, 5, b, 1, 2, 2, 2, 2, 2, 2, 255>> : b \in 0..255}
ChangeBuffers ==
    ShortBuffers \cup DirectBuffers \cup EchoBuffers \cup ForeignBuffers
    \cup AnyCommandBuffers \cup OddPatternBuffers \cup BalanceBuffers
\* hex strings that bytes.fromhex rejects
OddHex == {<<8>>, <<8, 2, 0>>, <<1, 8, 9, 6, 1, 8, 2, 0, 0>>}

InitChange ==
    /\ IdlePoll
    /\ IdleExec
    /\ IdleController
    /\ IdleSync
    /\ IdleNames
    /\ input_mappings \in Mappings
    /\ bcast_hex \in {hex(b) : b \in ChangeBuffers} \cup OddHex
    /\ broadcast_info = [type |-> "unset"]

\* broadcast_info = self.broadcast_decoder.decode_packet(packet_hex)
DecodePacket ==
    /\ broadcast_info = [type |-> "unset"]
    /\ broadcast_info' = decode_packet(bcast_hex, input_mappings)
    /\ UNCHANGED <<ctlVars, syncVars, input_mappings, bcast_hex, namesVars, pollVars, execVars>>

NextChange == DecodePacket

SpecChange == InitChange /\ [][NextChange]_vars

(***************************************************************************)
(* ALLNAMES: _send_protocol_command and query_all_names.                   *)
(***************************************************************************)
\* bytes.decode('ascii', errors='ignore'): bytes from 0x80 on are dropped
decode_ascii(bytes) == SelectSeq(bytes, LAMBDA b : b < 128)

\* "Wi-Fi"
WiFi == <<87, 105, 45, 70, 105>>
\* f"Input{n}" for a one-digit n
InputN(n) == <<73, 110, 112, 117, 116, 48 + n>>

\* the zone name loop, lines 1069-1083: from zone_id on, with the names
\* read so far; cut tells that the loop left at the second break, with a
\* declared length that runs past the end of the data
RECURSIVE ZoneNameLoop(_, _, _, _)
ZoneNameLoop(d, pos, zone_id, zone_names) ==
    IF zone_id >= 8 THEN [pos |-> pos, names |-> zone_names, cut |-> FALSE]
    ELSE IF pos >= Len(d) THEN [pos |-> pos, names |-> zone_names, cut |-> FALSE]
    ELSE
      LET name_len == d[pos + 1]
          p == pos + 1
      IN  IF p + name_len > Len(d)
          THEN [pos |-> p, names |-> zone_names, cut |-> TRUE]
          ELSE ZoneNameLoop(d, p + name_len, zone_id + 1,
                   Append(zone_names, decode_ascii(Slice(d, p, p + name_len))))

\* the input name loop, lines 1085-1105; read counts the names taken from
\* the buffer
RECURSIVE InputNameLoop(_, _, _, _)
InputNameLoop(d, pos, input_id, input_names) ==
    IF input_id >= 8 THEN [names |-> input_names, read |-> input_id]
    ELSE IF pos >= Len(d) THEN
        [names |-> IF input_id = 7 THEN Append(input_names, WiFi) ELSE input_names,
         read |-> input_id]
    ELSE
      LET name_len == d[pos + 1]
          p == pos + 1
      IN  IF p + name_len > Len(d) THEN
            [names |-> IF input_id = 7 THEN Append(input_names, WiFi)
                       ELSE input_names,
             read |-> input_id]
          ELSE InputNameLoop(d, p + name_len, input_id + 1,
                   Append(input_names, decode_ascii(Slice(d, p, p + name_len))))

\* mutant: every missing input name is padded as Input{n}, the 8th too
PadName_AlwaysInputN(n) == InputN(n)
\* lines 1108-1112: the name appended when len(input_names) is n - 1
PadName(n) == IF n - 1 = 7 THEN WiFi ELSE InputN(n)

\* mutant: the padding loop is missing
PadInputNames_NoPadding(input_names) == input_names
\* while len(input_names) < 8: pad
RECURSIVE PadInputNames(_)
PadInputNames(input_names) ==
    IF Len(input_names) < 8
    THEN PadInputNames(Append(input_names, PadName(Len(input_names) + 1)))
    ELSE input_names

RuntimeError == [status |-> "RuntimeError"]
ConnectionError == [status |-> "ConnectionError"]

\* query_all_names, lines 1028-1124: the parse of the reply; every raise
\* inside it leaves as RuntimeError
parse_all_names(resp) ==
    LET payload_start == 20
        data_start == 10
    IN  IF Len(resp) < payload_start THEN RuntimeError
        ELSE
          LET payload == SliceFrom(resp, payload_start)
          IN  IF Len(payload) < data_start THEN RuntimeError
              ELSE
                LET d == SliceFrom(payload, data_start)
                IN  IF 0 + 1 > Len(d) THEN RuntimeError
                    ELSE
                      LET device_name_len == d[1]
                      IN  IF 1 + device_name_len > Len(d) THEN RuntimeError
                          ELSE
                            LET zl == ZoneNameLoop(d, 1 + device_name_len, 0, <<>>)
                                il == InputNameLoop(d, zl.pos, 0, <<>>)
                            IN  [status |-> "ok",
                                 zone_names |-> zl.names,
                                 input_names |-> PadInputNames(il.names),
                                 inputs_read |-> il.read,
                                 zone_cut |-> zl.cut]

\* _send_protocol_command(0x0a): the frame it builds
protocol_packet_0a ==
    LET length == 15
        fixed == <<87,6,0,0,0,0,0,0,0,0,0,0>>
        payload == MCU_PAS \o <<130, 10, 255, 255, 255, 137, 38>>
    IN  fromhex(hex_18961820) \o to_bytes4_little(length) \o fixed \o payload

\* the ALLNAMES replies tried.  The names of a reply have length len, but
\* for the odd-th, of length oddLen; every name is made of the byte ch;
\* count names follow the device name; the reply ends with cc 26 and is cut
\* after any number of bytes.
PascalName(n, ch) == <<n>> \o Repeat(ch, n)
RECURSIVE PascalNames(_, _, _, _, _)
PascalNames(i, count, len, odd, oddLen) ==
    IF i > count THEN <<>>
    ELSE PascalName(IF i = odd THEN oddLen ELSE len.n, len.ch)
         \o PascalNames(i + 1, count, len, odd, oddLen)
NamesData ==
    {PascalName(1, 68) \o PascalNames(1, count, [n |-> n, ch |-> ch], odd, oddLen)
        \o <<204, 38>> :
        count \in {15, 16}, n \in 0..MaxNameLen, ch \in {0, 1, 65},
        odd \in 1..16, oddLen \in 0..(MaxNameLen + 1)}
\* the 20-byte header and the tag and command of the captured reply
AllNamesHead ==
    <<24,150,24,32,163,0,0,0,130,52,0,0,0,0,0,0,0,0,0,0,
      77,67,85,43,80,65,83,43,130,21>>
AllNamesReplies ==
    {AllNamesHead \o Slice(d, 0, cut) : d \in NamesData, cut \in 0..(16 * (MaxNameLen + 2) + 4)}
    \cup {Slice(AllNamesHead, 0, n) : n \in {0, 1, 19, 20, 29}}

InitNames ==
    /\ IdlePoll
    /\ IdleExec
    /\ socket \in {"None", "open"}
    /\ pc = "idle"
    /\ call = NoCall
    /\ result = FALSE
    /\ sent = <<>>
    /\ steps = <<>>
    /\ IdleSync
    /\ IdleChange
    /\ allnames_response \in AllNamesReplies
    /\ names_result = Unset

\* query_all_names.  _send_protocol_command sends the frame, reads the ACK
\* and then the reply; it returns None when send or recv raises or the
\* reply is empty, and query_all_names then raises RuntimeError.
query_all_names ==
    \E dev \in {"data", "timeout", "senderr"} :
        /\ pc = "idle"
        /\ pc' = "returned"
        /\ call' = [op |-> "query_all_names", zone_id |-> 0, value |-> dev]
        /\ result' = FALSE
        /\ sent' = IF socket = "None" \/ dev = "senderr"
                   THEN <<>> ELSE <<protocol_packet_0a>>
        /\ names_result' =
             IF socket = "None" THEN ConnectionError
             ELSE IF dev # "data" \/ allnames_response = <<>> THEN RuntimeError
             ELSE parse_all_names(allnames_response)
        /\ UNCHANGED <<socket, steps, syncVars, changeVars, allnames_response, pollVars, execVars>>

NextNames == query_all_names

SpecNames == InitNames /\ [][NextNames]_vars

(***************************************************************************)
(* The controller: Init is the state after MatrioController.__init__.      *)
(***************************************************************************)
Init ==
    IdleController /\ IdleSync /\ IdleChange /\ IdleNames /\ IdlePoll /\ IdleExec

Next ==
    \/ connect
    \/ disconnect
    \/ set_zone_power
    \/ set_volume
    \/ set_mute
    \/ set_input
    \/ set_balance
    \/ set_bass
    \/ set_treble
    \/ set_zone_name
    \/ set_input_name
    \/ Return

Spec == Init /\ [][Next]_vars

(***************************************************************************)
(* Polling the device: get_zone_states, trigger_hng_sync and               *)
(* _extract_hng_sync_packet.                                               *)
(***************************************************************************)
\* trigger_hng_sync returned None
NoResult == [status |-> "None"]

\* data.find(b'\x82\x0c'): the first place of the signature, or -1
find_signature(data) ==
    LET hits == {i \in 0..(Len(data) - 2) : data[i + 1] = 130 /\ data[i + 2] = 12}
    IN  IF hits = {} THEN -1 ELSE CHOOSE i \in hits : \A j \in hits : i <= j

\* _extract_hng_sync_packet: the hex string of the 96 bytes from the
\* signature on if the data holds that many, else of the 68 bytes, else
\* None.  None is the empty string here: the caller tests "not hng_hex".
_extract_hng_sync_packet(data) ==
    LET hng_pos == find_signature(data)
        hng_start == hng_pos
        hng_end_96 == hng_start + 96
        hng_end_68 == hng_start + 68
    IN  IF hng_pos = -1 THEN <<>>
        ELSE IF hng_end_96 <= Len(data) THEN hex(Slice(data, hng_start, hng_end_96))
        ELSE IF hng_end_68 <= Len(data) THEN hex(Slice(data, hng_start, hng_end_68))
        ELSE <<>>

\* mutant: a failed sync is taken for a lost connection, the socket is
\* closed and cleared
trigger_hng_sync_ClosesOnFailure(mappings, dev) ==
    IF socket = "None"
    THEN [result |-> NoResult, sent |-> <<>>, socket |-> socket]
    ELSE IF socket = "unconnected" \/ dev.how = "senderr"
    THEN [result |-> NoResult, sent |-> <<>>, socket |-> "None"]
    ELSE IF dev.how # "data"
    THEN [result |-> NoResult, sent |-> <<init_packet>>, socket |-> "None"]
    ELSE
      LET combined_data == dev.sync_response \o dev.allnames_response
          hng_hex == IF Len(combined_data) > 100
                     THEN _extract_hng_sync_packet(combined_data)
                     ELSE hex(combined_data)
          decoded == IF mappings.present
                     THEN decode_hng_sync_packet(hng_hex, mappings.mappings)
                     ELSE Raised
          failed == hng_hex = <<>> \/ decoded = Raised
      IN  [result |-> IF failed THEN NoResult ELSE decoded,
           sent |-> <<init_packet>>,
           socket |-> IF failed THEN "None" ELSE socket]
\* trigger_hng_sync with self.input_mappings = mappings, when the device
\* does dev.  Every exception (send or recv raising, the decoder's
\* IndexError, None.get of a missing mapping) is caught and gives None; the
\* socket is not touched.
trigger_hng_sync(mappings, dev) ==
    IF socket = "None"
    THEN [result |-> NoResult, sent |-> <<>>, socket |-> socket]
    ELSE IF socket = "unconnected" \/ dev.how = "senderr"
    THEN [result |-> NoResult, sent |-> <<>>, socket |-> socket]
    ELSE IF dev.how # "data"
    THEN [result |-> NoResult, sent |-> <<init_packet>>, socket |-> socket]
    ELSE
      LET combined_data == dev.sync_response \o dev.allnames_response
          hng_hex == IF Len(combined_data) > 100
                     THEN _extract_hng_sync_packet(combined_data)
                     ELSE hex(combined_data)
          decoded == IF mappings.present
                     THEN decode_hng_sync_packet(hng_hex, mappings.mappings)
                     ELSE Raised
          failed == hng_hex = <<>> \/ decoded = Raised
      IN  [result |-> IF failed THEN NoResult ELSE decoded,
           sent |-> <<init_packet>>,
           socket |-> socket]

\* what the device does on a poll: send raises, a recv raises socket.timeout
\* or returns b'', or both replies arrive
PollFailures ==
    {[how |-> h] : h \in {"senderr", "sync_timeout", "sync_empty",
                          "allnames_timeout", "allnames_empty"}}
\* sync replies tried: the captured section, alone and behind its envelope,
\* cut short, a buffer without the signature, a 96-byte section
SyncResponses ==
    {Literal68, LiteralEnvelope \o Literal68, Slice(Literal68, 0, 40), Ramp(68),
     RampSync(96)}
\* ALLNAMES replies tried: the start of a reply, of these lengths
TrailerLengths == {1, 5, 28, 33, 60}
Trailer(n) == Slice(AllNamesHead \o Repeat(65, 40), 0, n)
PollReplies ==
    {[how |-> "data", sync_response |-> s, allnames_response |-> Trailer(n)] :
        s \in SyncResponses, n \in TrailerLengths}

\* get_zone_states(input_mappings): a non-empty mapping is stored, then
\* trigger_hng_sync runs with the stored one; its zones are returned, or {}
get_zone_states ==
    \E m \in Mappings, dev \in PollFailures \cup PollReplies :
        LET stored == IF m # <<>> THEN Stored(m) ELSE self_input_mappings
            hng == trigger_hng_sync(stored, dev)
        IN  /\ pc = "idle"
            /\ pc' = "returned"
            /\ call' = [op |-> "get_zone_states", zone_id |-> 0, value |-> m]
            /\ self_input_mappings' = stored
            /\ received' = IF socket = "None" THEN [how |-> "not_connected"]
                           ELSE IF socket = "unconnected" THEN [how |-> "senderr"]
                           ELSE dev
            /\ hng_result' = hng.result
            /\ zone_states' = IF hng.result # NoResult THEN hng.result.zones
                              ELSE <<>>
            /\ result' = FALSE
            /\ sent' = hng.sent
            /\ socket' = hng.socket
            /\ UNCHANGED <<steps, syncVars, changeVars, namesVars, execVars>>

NextPoll ==
    \/ connect
    \/ disconnect
    \/ get_zone_states
    \/ set_zone_power
    \/ Return

SpecPoll == Init /\ [][NextPoll]_vars

(***************************************************************************)
(* Entity operations on executor threads: each awaits                      *)
(* hass.async_add_executor_job(controller.set_..., zone_id, value), and    *)
(* the controller method sends its frame and then reads the reply.  The    *)
(* controller holds no lock.                                               *)
(***************************************************************************)
\* the operations tried: a bass number and a zone switch, two zones
JobOps == {"set_bass", "set_zone_power"}
JobZones == {1, 2}

\* the frame a job sends
JobFrame(job) ==
    IF job.op = "set_bass" THEN audio_packet(job.zone_id, "bass", 0)
    ELSE power_packet(job.zone_id, TRUE)

\* an entity operation hands a controller method to executor thread t
async_add_executor_job(t) ==
    /\ jobs[t].at = "idle"
    /\ \E op \in JobOps, zone_id \in JobZones :
          jobs' = [jobs EXCEPT ![t] = [at |-> "called", op |-> op, zone_id |-> zone_id]]
    /\ UNCHANGED <<ctlVars, syncVars, changeVars, namesVars, pollVars, wire, inbox>>

\* self.socket.send(packet)
socket_send(t) ==
    /\ jobs[t].at = "called"
    /\ Len(wire) + Len(inbox) < MaxPending
    /\ jobs' = [jobs EXCEPT ![t].at = "awaiting"]
    /\ wire' = Append(wire, JobFrame(jobs[t]))
    /\ UNCHANGED <<ctlVars, syncVars, changeVars, namesVars, pollVars, inbox>>

\* the device answers the oldest frame it has not answered yet
device_reply ==
    /\ wire # <<>>
    /\ wire' = Tail(wire)
    /\ inbox' = Append(inbox, Head(wire))
    /\ UNCHANGED <<ctlVars, syncVars, changeVars, namesVars, pollVars, jobs>>

\* response = self.socket.recv(1024): whatever has arrived, whichever
\* frame it answers; the method returns True
socket_recv(t) ==
    /\ jobs[t].at = "awaiting"
    /\ inbox # <<>>
    /\ jobs' = [jobs EXCEPT ![t].at = "returned_True"]
    /\ inbox' = <<>>
    /\ UNCHANGED <<ctlVars, syncVars, changeVars, namesVars, pollVars, wire>>

\* recv raises socket.timeout after 2 seconds without data; the method
\* returns False
socket_timeout(t) ==
    /\ jobs[t].at = "awaiting"
    /\ inbox = <<>>
    /\ jobs' = [jobs EXCEPT ![t].at = "returned_False"]
    /\ UNCHANGED <<ctlVars, syncVars, changeVars, namesVars, pollVars, wire, inbox>>

\* the await of the entity operation ends
job_done(t) ==
    /\ jobs[t].at \in {"returned_True", "returned_False"}
    /\ jobs' = [jobs EXCEPT ![t] = IdleJob]
    /\ UNCHANGED <<ctlVars, syncVars, changeVars, namesVars, pollVars, wire, inbox>>

\* the controller is connected
InitThreads ==
    /\ socket = "open"
    /\ pc = "idle"
    /\ call = NoCall
    /\ result = FALSE
    /\ sent = <<>>
    /\ steps = <<>>
    /\ IdleSync
    /\ IdleChange
    /\ IdleNames
    /\ IdlePoll
    /\ IdleExec

NextThreads ==
    \/ \E t \in Threads : async_add_executor_job(t)
    \/ \E t \in Threads : socket_send(t)
    \/ device_reply
    \/ \E t \in Threads : socket_recv(t)
    \/ \E t \in Threads : socket_timeout(t)
    \/ \E t \in Threads : job_done(t)

SpecThreads == InitThreads /\ [][NextThreads]_vars

(***************************************************************************)
(* Properties.                                                             *)
(***************************************************************************)
\* the value byte of an enveloped command frame: 20 header bytes, the
\* 8-byte tag, 0x82, the command byte, then the value
ValueByte(frame) == frame[31]

\* a call of op has returned after writing a frame
Wrote(op) == pc = "returned" /\ call.op = op /\ sent # <<>>

\* C1: for every UI volume v in 0..38, the wire byte set_volume puts in its
\* frame (max(1, v+1)) decodes with decode_volume_level (max(0, wire-1))
\* to exactly v.
C1_VolumeRoundTrip ==
    Wrote("set_volume") =>
        /\ call.value \in 0..38
        /\ ValueByte(sent[1]) = Max(1, call.value + 1)
        /\ decode_volume_level(ValueByte(sent[1])) = call.value

\* the floor of the range: UI volume 0 went out as wire byte 1
C1_Witness ==
    Wrote("set_volume") /\ call.value = 0 /\ ValueByte(sent[1]) = 1

\* C2: for every bass/treble value b in -12..12, the wire byte set_bass and
\* set_treble put in their frame (b + 0x0d) decodes with the bass/treble
\* decoder to exactly b.
C2_BassTrebleRoundTrip ==
    (Wrote("set_bass") \/ Wrote("set_treble")) =>
        /\ call.value \in -12..12
        /\ ValueByte(sent[1]) \in 1..25
        /\ bass_treble_value(ValueByte(sent[1])) = call.value

\* the lowest value: treble -12 went out as wire byte 0x01
C2_Witness ==
    Wrote("set_treble") /\ call.value = -12 /\ ValueByte(sent[1]) = 1

\* C3: set_balance encodes -100 as 0x01, 0 as 0x1f and 100 as 0x3d, and each
\* of these bytes decodes to the matching value in the sync decoder (MAX
\* Left, Default [the centre], MAX Right) and in the change decoder (-100,
\* 0, 100).
C3_BalanceAnchors ==
    Wrote("set_balance") =>
        LET w == ValueByte(sent[1])
        IN  /\ call.value = -100 =>
                /\ w = 1
                /\ \A size \in {68, 96} :
                       decode_balance_state(w, size) = Label("MAX Left")
                /\ _decode_balance_value(w) = -100
            /\ call.value = 0 =>
                /\ w = 31
                /\ \A size \in {68, 96} :
                       decode_balance_state(w, size) = Label("Default")
                /\ _decode_balance_value(w) = 0
            /\ call.value = 100 =>
                /\ w = 61
                /\ \A size \in {68, 96} :
                       decode_balance_state(w, size) = Label("MAX Right")
                /\ _decode_balance_value(w) = 100

\* the centre went out as 0x1f
C3_Witness ==
    Wrote("set_balance") /\ call.value = 0 /\ ValueByte(sent[1]) = 31

\* C8: for every zone z in 1..7 and volume v in 0..38, the frame set_volume
\* writes decodes with decode_packet, as a command echo and as the direct
\* form that starts at its 0x82 marker, to a volume event with volume v and
\* zones [z].
C8_VolumeEcho ==
    (Wrote("set_volume") /\ call.zone_id \in 1..7) =>
        \A buffer \in {sent[1], SliceFrom(sent[1], 28)} :
            LET event == decode_packet(hex(buffer), inputs)
            IN  /\ event.type = "volume"
                /\ event.volume = call.value
                /\ event.zones = <<call.zone_id>>

\* the example of the claim: zone 3, volume 20
C8_Witness ==
    /\ Wrote("set_volume") /\ call.zone_id = 3 /\ call.value = 20
    /\ decode_packet(hex(sent[1]), inputs).type = "volume"

\* the control operations that take a zone id
ControlOps ==
    {"set_zone_power", "set_volume", "set_mute", "set_input", "set_balance",
     "set_bass", "set_treble", "set_zone_name"}

\* C10: a control operation called on a connected controller with a zone id
\* outside 1..8 reports failure and writes nothing to the socket.
C10_BadZoneRejected ==
    (/\ pc = "returned"
     /\ socket = "open"
     /\ call.op \in ControlOps
     /\ call.zone_id \notin 1..8) =>
        /\ result = FALSE
        /\ sent = <<>>

\* a rename of zone 9 on a connected controller has returned
C10_Witness ==
    /\ pc = "returned"
    /\ socket = "open"
    /\ call.op = "set_zone_name"
    /\ call.zone_id = 9
    /\ result = FALSE

\* 82 08 02 01 02 02 02 02 02 02
Literal10 == <<130, 8, 2, 1, 2, 2, 2, 2, 2, 2>>

Decoded == broadcast_info # [type |-> "unset"]

PowerOnZone1(event) ==
    event.type = "power" /\ event.zones = <<1>> /\ event.power_on = TRUE

\* C6 as stated: decoding the 10-byte buffer 82 08 02 01 02 02 02 02 02 02
\* yields a Power event with zones [1] and power_on true.
C6_TenBytePower ==
    (Decoded /\ bcast_hex = hex(Literal10)) => PowerOnZone1(broadcast_info)

\* C6 amended: the ten bytes followed by one trailer byte (the 11-byte
\* direct form) decode to a Power event with zones [1] and power_on true;
\* the ten bytes alone are below the 11-byte minimum and decode to None.
C6_ElevenBytePower ==
    (Decoded /\ fromhex_ok(bcast_hex)) =>
        LET packet == fromhex(bcast_hex)
        IN  /\ (Len(packet) = 11 /\ Slice(packet, 0, 10) = Literal10)
                  => PowerOnZone1(broadcast_info)
            /\ packet = Literal10 => broadcast_info = None

\* the 11-byte form was decoded to the power event
C6_Witness ==
    /\ bcast_hex = hex(Literal10 \o <<255>>)
    /\ PowerOnZone1(broadcast_info)

\* C7: a buffer of any length, the empty one included, whose first byte is
\* not 0x82 and whose first four bytes are not 18 96 18 20 decodes to None.
C7_ForeignIsNone ==
    (Decoded /\ fromhex_ok(bcast_hex)) =>
        LET packet == fromhex(bcast_hex)
        IN  (/\ ~(Len(packet) >= 1 /\ packet[1] = 130)
             /\ ~(Len(packet) >= 4 /\ Slice(packet, 0, 4) = header))
            => broadcast_info = None

\* a well-formed direct broadcast behind a foreign first byte was decoded
\* to None
C7_Witness ==
    /\ bcast_hex = hex(<<0>> \o Tail(Literal10) \o <<255>>)
    /\ broadcast_info = None

\* C4 as stated: the captured 68-byte packet decodes, for zone 1, to input
\* byte 0x01, volume byte 0x08 (UI 7) and power byte 0x01 (On).
C4_Zone1Volume7 ==
    (hng_plain # Unset /\ section = Literal68) =>
        /\ hng_plain.status = "ok"
        /\ hng_plain.zones[1].raw_data.input = <<0, 1>>
        /\ hng_plain.zones[1].raw_data.volume = <<0, 8>>
        /\ hng_plain.zones[1].volume = 7
        /\ hng_plain.zones[1].raw_data.power = <<0, 1>>
        /\ hng_plain.zones[1].power = Label("ON")

\* C4 amended: the captured 68-byte packet decodes, for zone 1, to input
\* byte 0x01, volume byte 0x05 (UI 4) and power byte 0x01 (On under the
\* 68-byte layout).
C4_Zone1Volume4 ==
    (hng_plain # Unset /\ section = Literal68) =>
        /\ hng_plain.status = "ok"
        /\ hng_plain.zones[1].raw_data.input = <<0, 1>>
        /\ hng_plain.zones[1].raw_data.volume = <<0, 5>>
        /\ hng_plain.zones[1].volume = 4
        /\ hng_plain.zones[1].raw_data.power = <<0, 1>>
        /\ hng_plain.zones[1].power = Label("ON")

\* the captured packet was decoded
C4_Witness ==
    /\ section = Literal68
    /\ hng_plain # Unset
    /\ hng_plain.status = "ok"
    /\ hng_plain.zones[1].volume = 4

\* C5: for any 68-byte section, decoding envelope + section (96 bytes) gives
\* for every zone the same input, volume, treble, bass and balance as
\* decoding the section alone; power and mute may differ.
C5_LayoutNormalization ==
    (Len(section) = 68 /\ hng_plain # Unset /\ hng_enveloped # Unset) =>
        /\ hng_plain.status = "ok"
        /\ hng_enveloped.status = "ok"
        /\ hng_enveloped.packet_length = 96
        /\ \A z \in 1..8 :
              /\ hng_enveloped.zones[z].input = hng_plain.zones[z].input
              /\ hng_enveloped.zones[z].raw_data.input
                     = hng_plain.zones[z].raw_data.input
              /\ hng_enveloped.zones[z].volume = hng_plain.zones[z].volume
              /\ hng_enveloped.zones[z].raw_data.volume
                     = hng_plain.zones[z].raw_data.volume
              /\ hng_enveloped.zones[z].treble = hng_plain.zones[z].treble
              /\ hng_enveloped.zones[z].bass = hng_plain.zones[z].bass
              /\ hng_enveloped.zones[z].balance = hng_plain.zones[z].balance
              /\ hng_enveloped.zones[z].raw_data.balance
                     = hng_plain.zones[z].raw_data.balance

\* both forms of the captured section were decoded, the section not at the
\* default of any compared field, and the two layouts disagree on power
C5_Witness ==
    /\ section = Literal68
    /\ hng_plain # Unset /\ hng_enveloped # Unset
    /\ hng_plain.status = "ok" /\ hng_enveloped.status = "ok"
    /\ hng_enveloped.zones[2].volume = 9
    /\ hng_enveloped.zones[2].balance = Label("MAX Right")
    /\ hng_enveloped.zones[2].power # hng_plain.zones[2].power

\* C9: whenever the names parser returns a table, it holds exactly 8 input
\* names, and every slot whose name was not read from the buffer holds the
\* default: "Wi-Fi" for slot 8, "Input{n}" for any other slot n.
C9_InputNameDefaults ==
    names_result.status = "ok" =>
        /\ Len(names_result.input_names) = 8
        /\ \A n \in 1..8 :
              n > names_result.inputs_read =>
                  names_result.input_names[n] =
                      IF n = 8 THEN <<87, 105, 45, 70, 105>>
                      ELSE <<73, 110, 112, 117, 116, 48 + n>>

\* a reply that ends after the 7th input name was parsed
C9_Witness ==
    /\ names_result.status = "ok"
    /\ names_result.inputs_read = 7
    /\ Len(names_result.zone_names) = 8
    /\ names_result.input_names[8] = <<87, 105, 45, 70, 105>>

\* the range of the value each value operation accepts
ValueRange(op) ==
    CASE op = "set_volume" -> 0..38
      [] op = "set_balance" -> -100..100
      [] op \in {"set_bass", "set_treble"} -> -12..12
      [] op = "set_input" -> 1..8

ValueOps == {"set_volume", "set_balance", "set_bass", "set_treble", "set_input"}

\* C11: a control value outside its range (volume outside 0..38, balance
\* outside -100..100, bass or treble outside -12..12, input id outside 1..8)
\* is rejected with a failure result and no frame is sent; it is never
\* clamped into range and transmitted.
C11_OutOfRangeRejected ==
    (/\ pc = "returned"
     /\ call.op \in ValueOps
     /\ call.value \notin ValueRange(call.op)) =>
        /\ result = FALSE
        /\ sent = <<>>

\* balance 101 for a valid zone on a connected controller was refused
C11_Witness ==
    /\ pc = "returned"
    /\ socket = "open"
    /\ call.op = "set_balance"
    /\ call.zone_id \in 1..8
    /\ call.value = 101
    /\ result = FALSE
    /\ sent = <<>>

\* the buffers of the sync specification and their decodes, once made
SyncDecodes ==
    {d \in {[packet |-> section, decoded |-> hng_plain],
            [packet |-> envelope \o section, decoded |-> hng_enveloped]} :
        d.decoded # Unset}

\* the section start of the claims: 0 behind 82 0c, else 28 at length 96
StartsWithSync(packet) == Len(packet) >= 2 /\ Slice(packet, 0, 2) = <<130, 12>>
SectionStart(packet) ==
    IF StartsWithSync(packet) THEN 0
    ELSE IF Len(packet) = 96 THEN 28
    ELSE 0

\* the raw byte a decode reports for a field of zone z
RawAt(packet, offset) == fmt02x(packet[offset + 1])

\* the fields of all 8 zones whose place does not depend on the layout are
\* read at the given start
ReadsFrom(d, start) ==
    /\ d.decoded.status = "ok"
    /\ DOMAIN d.decoded.zones = 1..8
    /\ \A z \in 1..8 :
          /\ d.decoded.zones[z].zone_id = z
          /\ d.decoded.zones[z].raw_data.input = RawAt(d.packet, start + 2 + z - 1)
          /\ d.decoded.zones[z].raw_data.volume = RawAt(d.packet, start + 10 + z - 1)
          /\ d.decoded.zones[z].raw_data.balance = RawAt(d.packet, start + 34 + z - 1)

\* power and mute are read where the 68-byte table has them
Uses68Table(d, start) ==
    \A z \in 1..8 :
        /\ d.decoded.zones[z].raw_data.power = RawAt(d.packet, start + 50 + z - 1)
        /\ d.decoded.zones[z].raw_data.mute = RawAt(d.packet, start + 28 + z - 1)

\* C12 as stated: the section start is 0 for every buffer that begins with
\* 82 0c, else 28 at length 96 and 0 at length 68; for any other length it
\* is 0 and decoding proceeds with the 68-byte table and returns 8 zones.
C12_StartAnyLength ==
    \A d \in SyncDecodes :
        /\ d.decoded.status = "ok" => ReadsFrom(d, SectionStart(d.packet))
        /\ Len(d.packet) \notin {68, 96} =>
               /\ ReadsFrom(d, 0)
               /\ Uses68Table(d, 0)

\* C12 amended: as stated, but for a length other than 68 and 96 only when
\* the buffer holds every byte the 68-byte table reads (58 bytes or more);
\* a shorter buffer makes the decoder raise.
C12_StartWhenLongEnough ==
    \A d \in SyncDecodes :
        /\ d.decoded.status = "ok" => ReadsFrom(d, SectionStart(d.packet))
        /\ (Len(d.packet) \notin {68, 96} /\ Len(d.packet) >= 58) =>
               /\ ReadsFrom(d, 0)
               /\ Uses68Table(d, 0)
        /\ (Len(d.packet) \notin {68, 96} /\ Len(d.packet) < 58) =>
               d.decoded = Raised

\* a 96-byte buffer behind the signature was decoded from offset 0
C12_Witness ==
    /\ section = RampSync(96)
    /\ hng_plain # Unset
    /\ hng_plain.status = "ok"
    /\ hng_plain.zones[1].raw_data.input = <<0, 2>>
    /\ hng_plain.zones[8].raw_data.volume = <<1, 1>>

\* C13: for every zone index z in 0..7 the sync decoder reads each field's
\* byte at section start + offset + z: input +2, volume +10, treble +18,
\* bass +26, balance +34 in both layouts, power +44 and mute +52 in the
\* 96-byte layout, power +50 and mute +28 in the 68-byte layout.
C13_FieldOffsets ==
    \A d \in SyncDecodes :
        d.decoded.status = "ok" =>
            LET start == SectionStart(d.packet)
                power_offset == IF Len(d.packet) = 96 THEN 44 ELSE 50
                mute_offset == IF Len(d.packet) = 96 THEN 52 ELSE 28
            IN  \A z \in 0..7 :
                  LET zone_data == d.decoded.zones[z + 1]
                  IN  /\ zone_data.raw_data.input = RawAt(d.packet, start + 2 + z)
                      /\ zone_data.raw_data.volume = RawAt(d.packet, start + 10 + z)
                      /\ zone_data.treble =
                             bass_treble_value(d.packet[start + 18 + z + 1])
                      /\ zone_data.bass =
                             bass_treble_value(d.packet[start + 26 + z + 1])
                      /\ zone_data.raw_data.balance = RawAt(d.packet, start + 34 + z)
                      /\ zone_data.raw_data.power =
                             RawAt(d.packet, start + power_offset + z)
                      /\ zone_data.raw_data.mute =
                             RawAt(d.packet, start + mute_offset + z)

\* the buffer of index bytes was decoded in both layouts: zone 3 got its
\* treble from byte 20 and its mute from byte 30 in the 68-byte layout, and
\* its power from byte 28 + 46 and its mute from byte 28 + 54 in the other
C13_Witness ==
    /\ section = Ramp(68)
    /\ hng_plain # Unset /\ hng_enveloped # Unset
    /\ hng_plain.status = "ok" /\ hng_enveloped.status = "ok"
    /\ hng_plain.zones[3].treble = 7
    /\ hng_plain.zones[3].raw_data.mute = <<1, 14>>
    /\ hng_plain.zones[3].raw_data.power = <<3, 4>>
    /\ hng_enveloped.zones[3].raw_data.power = <<2, 14>>
    /\ hng_enveloped.zones[3].raw_data.mute = <<3, 6>>

\* the largest field offset of the layout applied to a buffer: mute +52 at
\* length 96, power +50 otherwise
LargestOffset(packet) == IF Len(packet) = 96 THEN 52 ELSE 50

\* C14: if the sync buffer is shorter than section start + the largest
\* field offset of the applied layout + 8, decoding fails with an error and
\* no snapshot is returned for any zone.
C14_TruncatedRaises ==
    \A d \in SyncDecodes :
        Len(d.packet) < SectionStart(d.packet) + LargestOffset(d.packet) + 8
            => d.decoded = Raised

\* a buffer one byte short of the last power byte made the decoder raise
C14_Witness ==
    /\ section = RampSync(57)
    /\ hng_plain = Raised

\* the tables of the claim
PowerOf(byte, ninety_six) ==
    IF ninety_six
    THEN CASE byte = 2 -> Label("ON") [] byte = 1 -> Label("OFF")
           [] OTHER -> UNKNOWN(byte)
    ELSE CASE byte = 1 -> Label("ON") [] byte = 2 -> Label("OFF")
           [] OTHER -> UNKNOWN(byte)
MuteOf(byte, ninety_six) ==
    IF ninety_six
    THEN CASE byte = 1 -> Label("DEFAULT") [] byte = 2 -> Label("MUTED")
           [] OTHER -> UNKNOWN(byte)
    ELSE CASE byte = 13 -> Label("DEFAULT") [] byte = 2 -> Label("MUTED")
           [] OTHER -> UNKNOWN(byte)

\* C15: sync power and mute bytes are decoded per layout: at length 96
\* power 0x02 is On and 0x01 Off, mute 0x01 is Default and 0x02 Muted; in
\* the 68-byte layout power 0x01 is On and 0x02 Off, mute 0x0d is Default
\* and 0x02 Muted; every other byte yields Unknown carrying that byte.
C15_PowerMuteTables ==
    \A d \in SyncDecodes :
        d.decoded.status = "ok" =>
            LET start == SectionStart(d.packet)
                ninety_six == Len(d.packet) = 96
                power_at == start + (IF ninety_six THEN 44 ELSE 50)
                mute_at == start + (IF ninety_six THEN 52 ELSE 28)
            IN  \A z \in 1..8 :
                  /\ d.decoded.zones[z].power =
                         PowerOf(d.packet[power_at + z], ninety_six)
                  /\ d.decoded.zones[z].mute =
                         MuteOf(d.packet[mute_at + z], ninety_six)

\* the captured section in both layouts: byte 0x01 is On in one and byte
\* 0x02 is On in the other, a 0x02 mutes in both, and a mute byte 0x1f is
\* reported as unknown
C15_Witness ==
    /\ section = Literal68
    /\ hng_plain # Unset /\ hng_enveloped # Unset
    /\ hng_plain.zones[1].raw_data.power = <<0, 1>>
    /\ hng_plain.zones[1].power = Label("ON")
    /\ hng_plain.zones[6].power = Label("OFF")
    /\ hng_plain.zones[1].mute = Label("DEFAULT")
    /\ hng_plain.zones[7].mute = UNKNOWN(31)
    /\ hng_enveloped.zones[1].raw_data.power = <<0, 2>>
    /\ hng_enveloped.zones[1].power = Label("ON")
    /\ hng_enveloped.zones[2].power = Label("OFF")
    /\ hng_enveloped.zones[4].mute = Label("MUTED")

\* where a buffer carries its command: 0 for the 11-byte direct form, 28
\* behind the envelope and its tag, -1 when it carries none
CommandAt(packet) ==
    IF Len(packet) >= 11 /\ packet[1] = 130 THEN 0
    ELSE IF Len(packet) >= 38 /\ Slice(packet, 0, 4) = header
            /\ Slice(packet, 20, 28) = MCU_PAS THEN 28
    ELSE -1

\* C16: the change decoder maps command 0x08 to Power (on iff value is
\* 0x02), 0x01 to Volume (max(0, value-1)), 0x0e to Mute (muted iff value
\* is 0x02), 0x0d to Input (name from the mapping, placeholder if absent),
\* 0x05 to Balance, 0x03 to Bass, 0x02 to Treble, 0x10 to TotalVolume, and
\* every other command byte in 0..255 to None.
C16_CommandMapping ==
    (Decoded /\ fromhex_ok(bcast_hex) /\ CommandAt(fromhex(bcast_hex)) >= 0) =>
        LET packet == fromhex(bcast_hex)
            at == CommandAt(packet)
            command == packet[at + 2]
            value == packet[at + 3]
            event == broadcast_info
        IN  CASE command = 8 ->
                   event.type = "power" /\ event.power_on = (value = 2)
              [] command = 1 ->
                   event.type = "volume" /\ event.volume = Max(0, value - 1)
              [] command = 14 ->
                   event.type = "mute" /\ event.muted = (value = 2)
              [] command = 13 ->
                   /\ event.type = "input"
                   /\ event.input_id = value
                   /\ event.input_name =
                          IF value \in DOMAIN input_mappings
                          THEN Label(input_mappings[value])
                          ELSE [label |-> "Input ", arg |-> value]
              [] command = 5 ->
                   event.type = "balance" /\ event.balance \in -100..100
              [] command = 3 ->
                   event.type = "bass" /\ event.bass \in -12..12
              [] command = 2 ->
                   event.type = "treble" /\ event.treble \in -12..12
              [] command = 16 ->
                   event.type = "total_volume"
                   /\ event.volume = Max(0, value - 1)
              [] OTHER -> event = None

\* an input change to an input the mapping does not name was decoded to
\* the placeholder name
C16_Witness ==
    /\ bcast_hex = hex(<<130, 13, 21, 1, 2, 2, 2, 2, 2, 2, 255>>)
    /\ broadcast_info.type = "input"
    /\ broadcast_info.input_id = 21
    /\ broadcast_info.input_name = [label |-> "Input ", arg |-> 21]

\* C17: in every event the change decoder returns, the zone list holds
\* exactly the zones i+1 (i in 0..6) whose pattern byte at position i is
\* 0x01, in strictly ascending order, and never zone 8.
C17_AffectedZones ==
    (/\ Decoded
     /\ broadcast_info # None
     /\ fromhex_ok(bcast_hex)
     /\ CommandAt(fromhex(bcast_hex)) >= 0) =>
        LET packet == fromhex(bcast_hex)
            at == CommandAt(packet)
            zone_list == broadcast_info.zones
        IN  /\ {zone_list[k] : k \in 1..Len(zone_list)}
                  = {i + 1 : i \in {j \in 0..6 : packet[at + 4 + j] = 1}}
            /\ \A k \in 1..(Len(zone_list) - 1) : zone_list[k] < zone_list[k + 1]
            /\ \A k \in 1..Len(zone_list) : zone_list[k] # 8

\* a pattern that selects zones 1, 3 and 7 was decoded
C17_Witness ==
    /\ bcast_hex = hex(<<130, 8, 2, 1, 2, 1, 2, 2, 2, 1, 255>>)
    /\ Decoded
    /\ broadcast_info.zones = <<1, 3, 7>>

\* the bytes of a frame behind the 20-byte header and the 8-byte tag
AfterTag(frame) == SliceFrom(frame, 28)

\* C18: for every zone 1..8 the power-on frame carries, after the 82 08
\* marker, an 11-byte field in which only the byte at 0-based position
\* zone (the zone number itself, not zone-1) is 0x01 and the others 0x02;
\* the power-off frame carries a 9-byte field in which position 0 and
\* position zone are 0x01 and the others 0x02.
C18_PowerPatterns ==
    Wrote("set_zone_power") =>
        LET body == AfterTag(sent[1])
            width == IF call.value THEN 11 ELSE 9
            field == Slice(body, 2, 2 + width)
            ones == IF call.value THEN {call.zone_id} ELSE {0, call.zone_id}
        IN  /\ call.zone_id \in 1..8
            /\ Slice(sent[1], 20, 28) = MCU_PAS
            /\ Slice(body, 0, 2) = <<130, 8>>
            /\ Len(body) = 2 + width + 3
            /\ Len(field) = width
            /\ \A k \in 0..(width - 1) :
                  field[k + 1] = IF k \in ones THEN 1 ELSE 2

\* power-on for zone 8 went out with its 0x01 at position 8 of the field
C18_Witness ==
    /\ Wrote("set_zone_power")
    /\ call.zone_id = 8
    /\ call.value = TRUE
    /\ AfterTag(sent[1])[2 + 8 + 1] = 1
    /\ AfterTag(sent[1])[2 + 7 + 1] = 2

\* the command byte of each operation that sends a value with a pattern
CommandByte(op) ==
    CASE op = "set_volume" -> 1
      [] op = "set_mute" -> 14
      [] op = "set_input" -> 13
      [] op = "set_balance" -> 5
      [] op = "set_bass" -> 3
      [] op = "set_treble" -> 2

PatternOps ==
    {"set_volume", "set_mute", "set_input", "set_balance", "set_bass", "set_treble"}

\* C19: for every zone z in 1..8 the volume, mute, input, balance, bass and
\* treble frames carry after the MCU+PAS+ tag: 0x82, the command byte (0x01,
\* 0x0e, 0x0d, 0x05, 0x03, 0x02), one value byte, an 8-byte zone pattern
\* with 0x01 at position z-1 and 0x02 elsewhere, then ff cc and one byte.
C19_PatternFrames ==
    \A op \in PatternOps :
        Wrote(op) =>
            LET body == AfterTag(sent[1])
                pattern == Slice(body, 3, 11)
            IN  /\ call.zone_id \in 1..8
                /\ Slice(sent[1], 20, 28) = MCU_PAS
                /\ Len(body) = 14
                /\ body[1] = 130
                /\ body[2] = CommandByte(op)
                /\ body[3] \in 0..255
                /\ \A k \in 0..7 :
                      pattern[k + 1] = IF k = call.zone_id - 1 THEN 1 ELSE 2
                /\ body[12] = 255
                /\ body[13] = 204

\* a treble frame for zone 5 went out with command byte 0x02
C19_Witness ==
    /\ Wrote("set_treble")
    /\ call.zone_id = 5
    /\ AfterTag(sent[1])[2] = 2
    /\ AfterTag(sent[1])[3 + 5] = 1

\* query_all_names has returned or raised on a reply the device did send
Parsed ==
    /\ pc = "returned"
    /\ call.op = "query_all_names"
    /\ socket = "open"
    /\ call.value = "data"

\* the number of bytes up to the end of the device name: the 20-byte
\* header, the 10-byte tag and command, the length byte and the name
DeviceNameEnd(resp) == IF Len(resp) < 31 THEN 31 ELSE 31 + resp[31]

\* C20 as stated: at any truncation point of an ALLNAMES response the names
\* parser returns a partial table with the defaults and does not raise.
C20_AnyTruncationParses ==
    (Parsed /\ allnames_response # <<>>) =>
        /\ names_result.status = "ok"
        /\ Len(names_result.input_names) = 8

\* C20 amended: when the response is cut anywhere after the device name
\* (inside or between the zone and input names), the parser returns a
\* partial table (at most 8 zone names, exactly 8 input names with the
\* defaults in the slots it did not read) and does not raise; when it is
\* cut inside the header, the tag and command block or the device name,
\* the parser raises RuntimeError.
C20_TruncatedNamesParse ==
    Parsed =>
        IF Len(allnames_response) >= DeviceNameEnd(allnames_response)
        THEN /\ names_result.status = "ok"
             /\ Len(names_result.zone_names) <= 8
             /\ Len(names_result.input_names) = 8
             /\ \A n \in (names_result.inputs_read + 1)..8 :
                   names_result.input_names[n] = IF n = 8 THEN WiFi ELSE InputN(n)
        ELSE names_result = RuntimeError

\* a reply that ends with its third zone name was parsed: three zone names,
\* no input name read, eight input names returned
C20_Witness ==
    /\ Parsed
    /\ names_result.status = "ok"
    /\ Len(names_result.zone_names) = 3
    /\ names_result.inputs_read = 0
    /\ names_result.input_names[1] = InputN(1)
    /\ names_result.input_names[8] = WiFi

\* round((b - 1) / (0x3d - 1) * 200) - 100 for a byte b in 0x01..0x3d; the
\* quotient is a multiple of 1/3, so no tie arises
RoundedBalance(b) == ((b - 1) * 400 + 60) \div 120 - 100

\* the bytes between the anchors 0x01, 0x1f and 0x3d
Interpolated == (1..61) \ {1, 31, 61}

\* C23: for every wire byte b in 0x01..0x3d other than 0x01, 0x1f and 0x3d
\* balance decoding returns round((b-1)/(0x3d-1)*200) - 100, and for every
\* byte outside 0x01..0x3d it returns Unknown, in the sync decoder (per
\* zone) and in the Balance change event alike.
C23_BalanceInterpolation ==
    /\ \A d \in SyncDecodes :
          d.decoded.status = "ok" =>
              \A z \in 1..8 :
                  LET zone_data == d.decoded.zones[z]
                      b == fromhex(zone_data.raw_data.balance)[1]
                  IN  /\ b \in Interpolated =>
                             zone_data.balance = str(RoundedBalance(b))
                      /\ b \notin 1..61 => zone_data.balance = UNKNOWN(b)
    /\ (Decoded /\ broadcast_info.type = "balance") =>
          LET b == fromhex(broadcast_info.raw_data)[1]
          IN  /\ b \in Interpolated => broadcast_info.balance = RoundedBalance(b)
              \* a number of the UI range is not Unknown
              /\ b \notin 1..61 => broadcast_info.balance \notin -100..100

\* the default of input name n: Input{n}, and Wi-Fi for the 8th
DefaultInputName(n) == IF n = 8 THEN WiFi ELSE InputN(n)

\* C24: if the buffer is exhausted while reading the zone names (a zone
\* name's declared length exceeds the remaining bytes), names parsing stops
\* there: no further name is read from the remaining bytes, and all 8 input
\* names take their defaults (Input1..Input7 and Wi-Fi).
C24_ZoneCutStopsParsing ==
    (Parsed /\ names_result.status = "ok" /\ names_result.zone_cut) =>
        /\ names_result.inputs_read = 0
        /\ \A n \in 1..8 : names_result.input_names[n] = DefaultInputName(n)

\* connect() has returned
Connected == pc = "returned" /\ call.op = "connect"

C27_NoSocketAfterFailedConnect ==
    /\ (Connected /\ result = FALSE) => socket = "None"
    /\ (pc = "returned" /\ call.op \in ControlOps /\ socket # "open") =>
           (result = FALSE /\ sent = <<>>)

\* the calls that build enveloped frames: the initialization of connect,
\* power, volume, mute, input, balance, bass and treble
EnvelopedOps ==
    {"connect", "set_zone_power", "set_volume", "set_mute", "set_input",
     "set_balance", "set_bass", "set_treble"}

\* C28: in every enveloped frame the controller builds (initialization,
\* power on, power off, volume, mute, input, balance, bass, treble) the
\* 4-byte little-endian length field at bytes 4..7 equals the number of
\* bytes that follow the 20-byte header, for every zone 1..8 and every
\* valid value.
C28_LengthField ==
    (pc = "returned" /\ call.op \in EnvelopedOps) =>
        \A i \in 1..Len(sent) :
            /\ Len(sent[i]) >= 20
            /\ Slice(sent[i], 0, 4) = header
            /\ Slice(sent[i], 4, 8) = to_bytes4_little(Len(sent[i]) - 20)

\* a power-on frame for zone 8 was written: 44 bytes, length field 0x18
C28_Witness ==
    /\ Wrote("set_zone_power")
    /\ call.zone_id = 8
    /\ call.value = TRUE
    /\ Len(sent[1]) = 44
    /\ Slice(sent[1], 4, 8) = <<24, 0, 0, 0>>

\* C29: for every zone z in 1..7 and both target states, decoding the power
\* frame the encoder produces (power-on 11-byte form or power-off 9-byte
\* form) as a command echo yields a Power event with affected zones exactly
\* [z] and power_on equal to the requested state; for z = 8 the decoded
\* event has an empty affected-zone list.
C29_PowerEcho ==
    \A z \in 1..8, power_on \in BOOLEAN :
        (Decoded /\ bcast_hex = hex(power_packet(z, power_on))) =>
            /\ broadcast_info.type = "power"
            /\ broadcast_info.power_on = power_on
            /\ broadcast_info.zones = IF z <= 7 THEN <<z>> ELSE <<>>

\* the power-off frame of zone 7 was decoded: Power, off, zone 7
C29_Witness ==
    /\ Decoded
    /\ bcast_hex = hex(power_packet(7, FALSE))
    /\ broadcast_info.type = "power"
    /\ broadcast_info.power_on = FALSE
    /\ broadcast_info.zones = <<7>>

\* get_zone_states has returned
Polled == pc = "returned" /\ call.op = "get_zone_states"

\* sync_response + allnames_response of the replies received
Combined(dev) == dev.sync_response \o dev.allnames_response

\* C22: a failure while fetching or decoding a sync packet (missing 82 0C
\* signature in concatenated data, truncated data, receive timeout or empty
\* receive, decode exception) is never connection-fatal: trigger_hng_sync
\* returns None and get_zone_states returns an empty result, and the call
\* leaves the controller's socket as it was, so that a later command is
\* sent on it.
C22_SyncFailureNotFatal ==
    /\ [](Polled =>
            /\ received.how \in {"senderr", "sync_timeout", "sync_empty",
                                 "allnames_timeout", "allnames_empty"} =>
                   hng_result = NoResult
            /\ (received.how = "data" /\ Len(Combined(received)) > 100
                /\ find_signature(Combined(received)) = -1) =>
                   hng_result = NoResult
            /\ (received.how = "data" /\ Len(Combined(received)) < 58) =>
                   hng_result = NoResult
            /\ ~self_input_mappings.present => hng_result = NoResult
            /\ hng_result = NoResult => zone_states = <<>>)
    /\ [][(pc = "idle" /\ pc' = "returned" /\ call'.op = "get_zone_states") =>
              socket' = socket]_vars

\* the sync reply timed out, get_zone_states returned {}, and the next call,
\* a power command, was written to the same open socket and answered
C22_Witness ==
    /\ received = [how |-> "sync_timeout"]
    /\ hng_result = NoResult
    /\ zone_states = <<>>
    /\ socket = "open"
    /\ Wrote("set_zone_power")
    /\ result = TRUE

\* C26: in any sequence of get_zone_states(m) calls, each call decodes the
\* zones' input names using exactly the input mapping m passed to that call
\* (an input byte absent from m yields UNKNOWN(byte)); the result never
\* depends on a mapping supplied to an earlier call.
C26_MappingPerCall ==
    (Polled /\ socket = "open" /\ received.how = "data") =>
        /\ hng_result = trigger_hng_sync(Stored(call.value), received).result
        /\ zone_states # <<>> =>
              \A z \in 1..8 :
                  LET b == fromhex(zone_states[z].raw_data.input)[1]
                  IN  zone_states[z].input =
                          IF b \in DOMAIN call.value THEN Label(call.value[b])
                          ELSE UNKNOWN(b)

\* the sync reply holds a whole 68-byte section behind its first 82 0c
HoldsSection(sync_response) ==
    /\ find_signature(sync_response) >= 0
    /\ find_signature(sync_response) + 68 <= Len(sync_response)

\* the power and mute state of each zone in what trigger_hng_sync returned
PowerMute(hng) ==
    IF hng = NoResult THEN <<>>
    ELSE [z \in 1..8 |-> <<hng.zones[z].power, hng.zones[z].mute>>]

\* C30: the power and mute state decoded for each zone by trigger_hng_sync
\* depends only on the bytes of the sync section beginning at the 82 0C
\* signature, not on how many bytes follow the section in the received
\* data: the same sync reply followed by any other amount of trailing data
\* decodes to the same power and mute states.
C30_TrailingDataIrrelevant ==
    (Polled /\ socket = "open" /\ received.how = "data"
     /\ HoldsSection(received.sync_response)) =>
        \A n \in TrailerLengths :
            LET other == [received EXCEPT !.allnames_response = Trailer(n)]
            IN  PowerMute(trigger_hng_sync(self_input_mappings, other).result)
                    = PowerMute(hng_result)

\* the threads whose frame is sent and whose reply is still awaited
InFlight == {t \in Threads : jobs[t].at = "awaiting"}

\* C21: on one physical connection at most one request is in flight at any
\* time: no command frame is sent while an earlier command's response is
\* still awaited, even when several entity operations invoke controller
\* commands concurrently from executor threads.
C21_OneInFlight == Cardinality(InFlight) <= 1

=============================================================================
